---- MODULE Spec2Model ----
(***************************************************************************)
(* A state-machine model of kicker_to_pick: the Sleeper kicker-to-rookie   *)
(* pick converter.  One run of run_kicker_scan is a chain of actions, one  *)
(* per function the command calls; what outlives a run is the player cache *)
(* file and the log files.  The variable impl selects which of the two     *)
(* source variants runs: "package" is src/src/kicker_to_pick/              *)
(* kicker_to_pick.py, "script" is the older src/kicker_to_pick.py.         *)
(*                                                                         *)
(* Python values that may be None, a dict, a list or a str are tagged      *)
(* records [t |-> ..., v |-> ...]; text is a TLA+ string.                  *)
(***************************************************************************)
EXTENDS Integers, Sequences, FiniteSets, TLC

VARIABLES
    impl,        \* which source variant runs: "package" or "script"
    argv,        \* the command line: league_id, draft_id, name, teams
    remote,      \* what the remote API would answer with on success
    now,         \* the clock: time.time() / datetime.now(), in seconds
    cache,       \* the file nfl_players.json
    logsDir,     \* whether the directory logs/ exists
    logs,        \* the files of logs/: file name -> content
    budget,      \* runs that may still be started
    pc,          \* the position of the run in run_kicker_scan
    exc,         \* the exception that ended the run, "" when none
    console,     \* what the run printed, in order
    fetches,     \* the requests the run made, in order, and how each ended
    league_data, final_name, draft_id, players, users_data, draft_picks,
    user_map, k_picks, output, final_text,   \* locals of run_kicker_scan
    cache_writes, \* times the run opened the cache file for writing
    appended     \* history: the log files before the first run (prior) and,
                 \* for every time a log was opened so far, the file, the
                 \* report of the run, the bytes the file took and whether
                 \* these are all of the report and its newline (writes)

vars == <<impl, argv, remote, now, cache, logsDir, logs, budget, pc, exc,
          console, fetches, league_data, final_name, draft_id, players,
          users_data, draft_picks, user_map, k_picks, output, final_text,
          cache_writes, appended>>

(***************************************************************************)
(* Program constants.                                                      *)
(***************************************************************************)
PLAYER_CACHE_FILE == "nfl_players.json"
CACHE_EXPIRY == 86400
TOTAL_NUM_PICKS == 48
LOW_REMAINING_THRESHOLD == 5
HTTP_OK == 200
DEFAULT_TEAMS == 12
DEFAULT_NAME == "Sleeper League"

(***************************************************************************)
(* Bounds of the model.                                                    *)
(***************************************************************************)
MaxPicks == 50       \* longest pick list handed to the formatter
MaxTeams == 13       \* largest --teams value handed to the formatter
MaxDraftPicks == 3   \* longest remote pick list in a whole run
MaxTeamsArg == 1     \* --teams ranges over -MaxTeamsArg..MaxTeamsArg in a whole run
MaxRuns == 2         \* runs in a row when runs are repeated
PartialCacheBytes == 10  \* size limit of the cache file when a write is cut short
PartialLogBytes == 20    \* size limit of a log file when a write is cut short

(***************************************************************************)
(* Python values.                                                          *)
(***************************************************************************)
None == [t |-> "none"]
Dict(d) == [t |-> "dict", v |-> d]
List(s) == [t |-> "list", v |-> s]
Str(s) == [t |-> "str", v |-> s]
Num(n) == [t |-> "int", v |-> n]
EmptyDict == Dict(<<>>)

\* bool(x)
Truthy(x) ==
    CASE x.t = "none" -> FALSE
      [] x.t = "dict" -> DOMAIN x.v # {}
      [] x.t = "list" -> Len(x.v) > 0
      [] x.t = "str" -> x.v # ""
      [] x.t = "int" -> x.v # 0

\* d.get(k, default) on the mapping d
Get(d, k, default) == IF k \in DOMAIN d THEN d[k] ELSE default

\* a // b and a % b as Python computes them (b # 0): the quotient is rounded
\* towards minus infinity and the remainder has the sign of b.
PyFloorDiv(a, b) == IF b > 0 THEN a \div b ELSE (-a) \div (-b)
PyMod(a, b) == a - b * PyFloorDiv(a, b)

Digit(d) ==
    CASE d = 0 -> "0" [] d = 1 -> "1" [] d = 2 -> "2" [] d = 3 -> "3"
      [] d = 4 -> "4" [] d = 5 -> "5" [] d = 6 -> "6" [] d = 7 -> "7"
      [] d = 8 -> "8" [] d = 9 -> "9"

RECURSIVE NatStr(_)
NatStr(n) == IF n < 10 THEN Digit(n) ELSE NatStr(n \div 10) \o Digit(n % 10)

\* f"{n}" of an int
IntStr(n) == IF n < 0 THEN "-" \o NatStr(-n) ELSE NatStr(n)

\* f"{n:02d}", str(n).zfill(2): zero-padded to a width of two, the sign
\* counting towards the width
Pad2(n) == IF n >= 0 /\ n < 10 THEN "0" \o NatStr(n) ELSE IntStr(n)

\* "\n".join(lines): the lines from..to of lines joined, by halving
RECURSIVE JoinRange(_, _, _)
JoinRange(lines, from, to) ==
    IF from > to THEN ""
    ELSE IF from = to THEN lines[from]
    ELSE LET mid == (from + to) \div 2
         IN  JoinRange(lines, from, mid) \o "\n" \o JoinRange(lines, mid + 1, to)

Join(lines) == JoinRange(lines, 1, Len(lines))

(***************************************************************************)
(* JSON text.  json.dump writes a value as text and json.load reads text;  *)
(* a file that was written only in part, or by somebody else, holds text   *)
(* that is not JSON, and json.load then raises a JSONDecodeError whose     *)
(* message names what the decoder expected and where.  Positions count     *)
(* from 0 as Python's do.                                                  *)
(***************************************************************************)
\* A model mapping has no key order; json.dump writes the keys in the order
\* the mapping holds them, which for the mappings of this model is this one.
JsonKeyOrder ==
    <<"k1", "p1", "q1", "x1", "zz", "position", "team", "name", "season",
      "user_id", "display_name", "draft_id", "a", "b", "t", "v">>

RECURSIVE json_dumps(_)
RECURSIVE json_dumps_items(_, _, _)
\* the items from..Len(items) of a list or mapping, joined by ", "
json_dumps_items(items, from, d) ==
    IF from > Len(items) THEN ""
    ELSE LET one == IF d = <<>> THEN json_dumps(items[from])
                    ELSE "\"" \o items[from] \o "\": " \o json_dumps(d[items[from]])
         IN  one \o (IF from < Len(items) THEN ", " ELSE "")
                 \o json_dumps_items(items, from + 1, d)

\* json.dumps(x), the text json.dump(x, f) writes (strings of the model need
\* no escape)
json_dumps(x) ==
    CASE x.t = "none" -> "null"
      [] x.t = "int" -> IntStr(x.v)
      [] x.t = "str" -> "\"" \o x.v \o "\""
      [] x.t = "list" -> "[" \o json_dumps_items(x.v, 1, <<>>) \o "]"
      [] x.t = "dict" ->
           LET has(k) == k \in DOMAIN x.v
           IN  "{" \o json_dumps_items(SelectSeq(JsonKeyOrder, has), 1, x.v) \o "}"

\* s[p:p+1]
Ch(s, p) == IF p >= 0 /\ p < Len(s) THEN SubSeq(s, p + 1, p + 1) ELSE ""

JsonWs == {" ", "\t", "\n", "\r"}
JsonDigits == {"0", "1", "2", "3", "4", "5", "6", "7", "8", "9"}
JsonHex == JsonDigits \cup {"a", "b", "c", "d", "e", "f", "A", "B", "C", "D", "E", "F"}

\* the first position from p on whose character is in chars (inside) or
\* is not (~inside), Len(s) when there is none
FirstFrom(s, p, chars, inside) ==
    LET hits == {q \in p..Len(s) : q = Len(s) \/ ((Ch(s, q) \in chars) <=> inside)}
    IN  CHOOSE q \in hits : \A r \in hits : q <= r

SkipWs(s, p) == FirstFrom(s, p, JsonWs, FALSE)
SkipDigits(s, p) == FirstFrom(s, p, JsonDigits, FALSE)

ScanOk(end) == [ok |-> TRUE, end |-> end]
ScanFail(msg, pos) == [ok |-> FALSE, msg |-> msg, pos |-> pos]

\* the end of the number the text holds at p, p when it holds none:
\* -?(0|[1-9]\d*)(\.\d+)?([eE][-+]?\d+)?
scan_number(s, p) ==
    LET m == IF Ch(s, p) = "-" THEN p + 1 ELSE p
        int_end == IF Ch(s, m) = "0" THEN m + 1
                   ELSE IF Ch(s, m) \in JsonDigits THEN SkipDigits(s, m)
                   ELSE p
        frac_end == IF int_end > p /\ Ch(s, int_end) = "." /\ Ch(s, int_end + 1) \in JsonDigits
                    THEN SkipDigits(s, int_end + 1) ELSE int_end
        k == IF Ch(s, frac_end + 1) \in {"+", "-"} THEN frac_end + 2 ELSE frac_end + 1
    IN  IF int_end > p /\ Ch(s, frac_end) \in {"e", "E"} /\ Ch(s, k) \in JsonDigits
        THEN SkipDigits(s, k) ELSE frac_end

RECURSIVE scanstring(_, _, _)
\* the string whose opening quote is at begin, read on from p
scanstring(s, begin, p) ==
    LET q == FirstFrom(s, p, {"\"", "\\", "\t", "\n", "\r", "\f"}, TRUE)
    IN  IF q >= Len(s) THEN ScanFail("Unterminated string starting at", begin)
        ELSE IF Ch(s, q) = "\"" THEN ScanOk(q + 1)
        ELSE IF Ch(s, q) # "\\" THEN ScanFail("Invalid control character at", q)
        ELSE IF Ch(s, q + 1) = "" THEN ScanFail("Unterminated string starting at", begin)
        ELSE IF Ch(s, q + 1) \in {"\"", "\\", "/", "b", "f", "n", "r", "t"}
        THEN scanstring(s, begin, q + 2)
        ELSE IF Ch(s, q + 1) # "u" THEN ScanFail("Invalid \\escape", q)
        ELSE IF q + 6 < Len(s) /\ \A i \in 2..5 : Ch(s, q + i) \in JsonHex
        THEN scanstring(s, begin, q + 6)
        ELSE ScanFail("Invalid \\uXXXX escape", q + 1)

RECURSIVE scan_once(_, _)
RECURSIVE JSONObjectMembers(_, _)
RECURSIVE JSONArrayItems(_, _)

\* The members of an object, from the character after the opening quote of
\* a key at p - 1.  (A scan is bound as the element of a one-element set, so
\* that it is made once however often its result is used.)
JSONObjectMembers(s, p) ==
    LET after_value(value) ==
            IF ~value.ok THEN value
            ELSE LET e == SkipWs(s, value.end)
                     k == SkipWs(s, e + 1)
                 IN  IF Ch(s, e) = "}" THEN ScanOk(e + 1)
                     ELSE IF Ch(s, e) # "," THEN ScanFail("Expecting ',' delimiter", e)
                     ELSE IF Ch(s, k) # "\""
                     THEN ScanFail("Expecting property name enclosed in double quotes", k)
                     ELSE JSONObjectMembers(s, k + 1)
        after_key(key) ==
            IF ~key.ok THEN key
            ELSE LET colon == IF Ch(s, key.end) = ":" THEN key.end ELSE SkipWs(s, key.end)
                 IN  IF Ch(s, colon) # ":" THEN ScanFail("Expecting ':' delimiter", colon)
                     ELSE CHOOSE r \in {after_value(value) :
                                           value \in {scan_once(s, SkipWs(s, colon + 1))}} : TRUE
    IN  CHOOSE r \in {after_key(key) : key \in {scanstring(s, p - 1, p)}} : TRUE

\* the object whose opening brace is at p - 1
JSONObject(s, p) ==
    LET k == SkipWs(s, p)
    IN  IF Ch(s, k) = "}" THEN ScanOk(k + 1)
        ELSE IF Ch(s, k) # "\""
        THEN ScanFail("Expecting property name enclosed in double quotes", k)
        ELSE JSONObjectMembers(s, k + 1)

\* the items of an array, from the start of an item at p
JSONArrayItems(s, p) ==
    LET after_value(value) ==
            IF ~value.ok THEN value
            ELSE LET e == SkipWs(s, value.end)
                 IN  IF Ch(s, e) = "]" THEN ScanOk(e + 1)
                     ELSE IF Ch(s, e) # "," THEN ScanFail("Expecting ',' delimiter", e)
                     ELSE JSONArrayItems(s, SkipWs(s, e + 1))
    IN  CHOOSE r \in {after_value(value) : value \in {scan_once(s, p)}} : TRUE

\* the array whose opening bracket is at p - 1
JSONArray(s, p) ==
    LET k == SkipWs(s, p)
    IN  IF Ch(s, k) = "]" THEN ScanOk(k + 1) ELSE JSONArrayItems(s, k)

\* the JSON value at p: where it ends, or what the decoder misses and where
scan_once(s, p) ==
    LET c == Ch(s, p)
        word(w) == SubSeq(s, p + 1, p + Len(w)) = w
    IN  CASE c = "\"" -> scanstring(s, p, p + 1)
          [] c = "{" -> JSONObject(s, p + 1)
          [] c = "[" -> JSONArray(s, p + 1)
          [] c = "n" /\ p + 4 <= Len(s) /\ word("null") -> ScanOk(p + 4)
          [] c = "t" /\ p + 4 <= Len(s) /\ word("true") -> ScanOk(p + 4)
          [] c = "f" /\ p + 5 <= Len(s) /\ word("false") -> ScanOk(p + 5)
          [] c = "N" /\ p + 3 <= Len(s) /\ word("NaN") -> ScanOk(p + 3)
          [] c = "I" /\ p + 8 <= Len(s) /\ word("Infinity") -> ScanOk(p + 8)
          [] c = "-" /\ p + 9 <= Len(s) /\ word("-Infinity") -> ScanOk(p + 9)
          [] OTHER -> IF scan_number(s, p) > p THEN ScanOk(scan_number(s, p))
                      ELSE ScanFail("Expecting value", p)

\* str(e) of the JSONDecodeError json.loads(s) raises, "" when s is JSON
json_error(s) ==
    LET at(msg, pos) ==
            LET newlines == {q \in 0..(pos - 1) : Ch(s, q) = "\n"}
                col == IF newlines = {} THEN pos + 1
                       ELSE pos - (CHOOSE q \in newlines : \A n \in newlines : n <= q)
            IN  msg \o ": line " \o IntStr(Cardinality(newlines) + 1)
                    \o " column " \o IntStr(col) \o " (char " \o IntStr(pos) \o ")"
        message(r) ==
            IF ~r.ok THEN at(r.msg, r.pos)
            ELSE IF SkipWs(s, r.end) # Len(s) THEN at("Extra data", SkipWs(s, r.end))
            ELSE ""
    IN  CHOOSE m \in {message(r) : r \in {scan_once(s, SkipWs(s, 0))}} : TRUE

(***************************************************************************)
(* The remote API.  A request ends in one of three ways: requests.get      *)
(* raises, the response has another status than 200, or the response has   *)
(* status 200 and carries the JSON the server holds for that URL.          *)
(***************************************************************************)
Responses(body) ==
    { [kind |-> "exception", status_code |-> 0, json |-> None],
      [kind |-> "response", status_code |-> 404, json |-> None],
      [kind |-> "response", status_code |-> HTTP_OK, json |-> body] }

Ok200 == [kind |-> "response", status_code |-> HTTP_OK, json |-> None]

\* fetch_data(url), given what the request to url ends in
fetch_data(resp) ==
    IF resp.kind = "response" /\ resp.status_code = HTTP_OK
    THEN resp.json ELSE None

\* the record of a request in the variable fetches
Request(url, resp) == [url |-> url, kind |-> resp.kind, status_code |-> resp.status_code]

\* what fetch_data prints
fetch_data_prints(resp) ==
    IF resp.kind = "exception"
    THEN <<"Network Error: connection failed">> ELSE <<>>

\* The player directory the server holds: id -> metadata.  "x1" has no
\* position; the id "zz" (used by some picks) is not in the directory.
PlayersDir ==
    [k1 |-> Dict([position |-> Str("K")]), p1 |-> Dict([position |-> Str("P")]),
     q1 |-> Dict([position |-> Str("QB")]), x1 |-> Dict([team |-> Str("FA")])]

\* An older snapshot of the directory, as a cache file may hold it.
OldPlayersDir ==
    [k1 |-> Dict([position |-> Str("QB")]), q1 |-> Dict([position |-> Str("K")])]

UsersList ==
    << [user_id |-> "u1", display_name |-> "alice"],
       [user_id |-> "u2", display_name |-> "bob"] >>

DraftsList == << [draft_id |-> Str("D2")], [draft_id |-> Str("D1")] >>

\* The j-th pick of a draft (j = 1, 2, ...).  With pattern "kickers" every
\* pick is a kicker; with "mixed" the players cycle through
\* kicker, quarterback, punter, an id missing from the directory, and a
\* player without position.  The drafting user cycles through two known
\* users and an unknown one.  Some picks carry no metadata, some only a
\* first name.
PlayerOf(j, pattern) ==
    IF pattern = "kickers"
    THEN "k1"
    ELSE <<"k1", "q1", "p1", "zz", "x1">>[((j - 1) % 5) + 1]

Pick(j, pattern) ==
    LET base == [pick_no |-> j,
                 player_id |-> PlayerOf(j, pattern),
                 picked_by |-> <<"u1", "u2", "u9">>[(j % 3) + 1]]
    IN  CASE j % 4 = 0 -> base
          [] j % 4 = 2 -> base @@ [metadata |-> [first_name |-> "F" \o IntStr(j)]]
          [] OTHER -> base @@ [metadata |-> [first_name |-> "F" \o IntStr(j),
                                             last_name |-> "L" \o IntStr(j)]]

PickList(n, pattern) == [j \in 1..n |-> Pick(j, pattern)]

Patterns == {"kickers", "mixed"}
Impls == {"package", "script"}

(***************************************************************************)
(* Writing a file.  Opening the file is refused ("fail": nothing changes), *)
(* or the file is opened and takes every byte ("ok"), no byte ("empty") or *)
(* only the bytes that fit below a size limit of the file ("partial"), as  *)
(* a full disk or a quota gives; a write that is cut short ends in an      *)
(* OSError after the file was changed.                                     *)
(***************************************************************************)
WriteOutcomes == {"ok", "fail", "empty", "partial"}

\* str(e) of the OSError of a write: opening refused, and growing refused
OpenErrorText(path) == "[Errno 13] Permission denied: '" \o path \o "'"
GrowErrorText == "[Errno 27] File too large"

\* how many of the bytes of text reach the file that was opened and holds
\* old, when a file cut short may not grow beyond limit bytes
bytes_taken(old, text, outcome, limit) ==
    CASE outcome = "ok" -> Len(text)
      [] outcome = "empty" -> 0
      [] outcome = "partial" ->
           IF limit <= Len(old) THEN 0
           ELSE IF limit - Len(old) < Len(text) THEN limit - Len(old)
           ELSE Len(text)

(***************************************************************************)
(* get_players.  The cache file holds bytes; content is what json.load     *)
(* makes of them: a tagged JSON value, [t |-> "text"] with the text for    *)
(* text that is not JSON, or [t |-> "bytes"] for bytes that are not text   *)
(* in the encoding the file is read in.  The result names the exception    *)
(* that escapes ("" when none), the mapping returned, the cache file       *)
(* afterwards, what was printed, whether the remote directory was          *)
(* requested and whether the cache file was opened for writing.            *)
(***************************************************************************)
Text(s) == [t |-> "text", v |-> s]
Garbage == Text("not json")
Undecodable == [t |-> "bytes"]

NoCache == [exists |-> FALSE, mtime |-> 0, content |-> None]
CacheFile(mtime, content) == [exists |-> TRUE, mtime |-> mtime, content |-> content]

file_age(c, t) == t - c.mtime

\* a slip: the age of the file is not looked at
cache_exists_only(c, t) == c.exists

\* the cache freshness gate of get_players
cache_is_fresh(c, t) == c.exists /\ file_age(c, t) < CACHE_EXPIRY

\* dict(x) takes a sequence x as a sequence of key/value pairs.  The
\* exception it raises on the element e, "" when e makes a pair: an element
\* that cannot be iterated and a key that cannot be hashed are TypeErrors,
\* an element that does not have two items is a ValueError.  (Elements that
\* are objects are left out: the keys of a model mapping have no order.)
pair_raises(e) ==
    CASE e.t = "list" -> IF Len(e.v) # 2 THEN "ValueError"
                         ELSE IF e.v[1].t \in {"list", "dict"} THEN "TypeError"
                         ELSE ""
      [] e.t = "str" -> IF Len(e.v) # 2 THEN "ValueError" ELSE ""
      [] e.t \in {"int", "none"} -> "TypeError"

\* key and value of the pair the element e makes (keys are strings)
pair_key(e) == IF e.t = "str" THEN SubSeq(e.v, 1, 1) ELSE e.v[1].v
pair_value(e) == IF e.t = "str" THEN Str(SubSeq(e.v, 2, 2)) ELSE e.v[2]

\* dict(x): the exception it raises, "" when it returns.  The items of a
\* list are taken in order, the items of a string are its characters (no
\* pairs), and any other value that is no mapping cannot be iterated.
dict_raises(x) ==
    CASE x.t = "dict" -> ""
      [] x.t = "list" ->
           LET bad == {i \in 1..Len(x.v) : pair_raises(x.v[i]) # ""}
           IN  IF bad = {} THEN ""
               ELSE pair_raises(x.v[CHOOSE i \in bad : \A j \in bad : i <= j])
      [] x.t = "str" -> IF Len(x.v) = 0 THEN "" ELSE "ValueError"
      [] OTHER -> "TypeError"

\* dict(x) when it returns: a later pair overrides an earlier one of its key
dict_value(x) ==
    CASE x.t = "dict" -> x
      [] x.t = "list" ->
           LET last(k) == CHOOSE i \in 1..Len(x.v) :
                              /\ pair_key(x.v[i]) = k
                              /\ \A j \in (i + 1)..Len(x.v) : pair_key(x.v[j]) # k
           IN  Dict([k \in {pair_key(x.v[i]) : i \in 1..Len(x.v)} |->
                        pair_value(x.v[last(k)])])
      [] x.t = "str" -> EmptyDict

\* the cache file after json.dump(data, f) at time t into the file opened
\* for writing (and so emptied): the directory when every byte was taken,
\* else the text that was taken
cache_written(data, t, cw) ==
    IF cw = "ok" THEN CacheFile(t, data)
    ELSE IF cw = "empty" THEN CacheFile(t, Text(""))
    ELSE LET text == json_dumps(data)
             taken == bytes_taken("", text, cw, PartialCacheBytes)
         IN  IF taken = Len(text) THEN CacheFile(t, data)
             ELSE CacheFile(t, Text(SubSeq(text, 1, taken)))

\* the part of get_players after the cache was not used: the remote fetch,
\* and the write of the cache file, which no try surrounds
fetch_players(variant, c, t, resp, printed, cw) ==
    LET data == fetch_data(resp)
        usable == IF variant = "package"
                  THEN Truthy(data) /\ data.t = "dict"
                  ELSE Truthy(data)
        lines == printed
                 \o <<"Fetching fresh player data from Sleeper (this may take a moment)...">>
                 \o fetch_data_prints(resp)
    IN  IF ~usable
        THEN [raised |-> "", players |-> EmptyDict, cache |-> c,
              printed |-> lines, fetched |-> TRUE, wrote |-> FALSE]
        ELSE IF cw = "fail"
        THEN [raised |-> "OSError", players |-> None, cache |-> c,
              printed |-> lines, fetched |-> TRUE, wrote |-> FALSE]
        ELSE LET file == cache_written(data, t, cw)
                 whole == file.content = data
             IN  [raised |-> IF whole THEN "" ELSE "OSError",
                  players |-> IF whole THEN data ELSE None,
                  cache |-> file,
                  printed |-> lines, fetched |-> TRUE, wrote |-> TRUE]

get_players(variant, c, t, resp, cw) ==
    IF cache_is_fresh(c, t)
    THEN IF c.content = Undecodable
         THEN \* reading the file raises UnicodeDecodeError, a ValueError
              [raised |-> "UnicodeDecodeError", players |-> None, cache |-> c,
               printed |-> <<>>, fetched |-> FALSE, wrote |-> FALSE]
         ELSE IF c.content.t = "text"
         THEN \* json.load raises JSONDecodeError
              IF variant = "package"
              THEN fetch_players(variant, c, t, resp,
                       <<"Cache file corrupted or unreadable: " \o json_error(c.content.v)
                         \o ". Re-fetching...">>, cw)
              ELSE [raised |-> "JSONDecodeError", players |-> None, cache |-> c,
                    printed |-> <<>>, fetched |-> FALSE, wrote |-> FALSE]
         ELSE IF variant = "package" /\ dict_raises(c.content) # ""
         THEN [raised |-> dict_raises(c.content), players |-> None, cache |-> c,
               printed |-> <<>>, fetched |-> FALSE, wrote |-> FALSE]
         ELSE [raised |-> "",
               players |-> IF variant = "package"
                           THEN dict_value(c.content) ELSE c.content,
               cache |-> c, printed |-> <<>>, fetched |-> FALSE, wrote |-> FALSE]
    ELSE fetch_players(variant, c, t, resp, <<>>, cw)

(***************************************************************************)
(* Draft resolution.                                                       *)
(***************************************************************************)
\* get_auto_draft_id, given what the drafts request ends in
get_auto_draft_id(variant, resp) ==
    LET drafts == fetch_data(resp)
    IN  IF variant = "package"
        THEN IF drafts.t = "list" /\ Len(drafts.v) > 0
             THEN (IF drafts.v[1].draft_id.t = "str" THEN drafts.v[1].draft_id ELSE None)
             ELSE None
        ELSE IF Truthy(drafts) THEN drafts.v[1].draft_id ELSE None

\* a slip: the draft list is looked up even when a draft id is given
resolve_draft_id_always_looks_up(variant, league_id, given, resp) ==
    LET found == get_auto_draft_id(variant, resp)
    IN  [draft_id |-> IF Truthy(found) THEN found ELSE given, fetched |-> TRUE,
         printed |-> fetch_data_prints(resp)]

\* resolve_draft_id(league_id, draft_id): the result, whether the draft list
\* was requested, and what was printed
resolve_draft_id(variant, league_id, given, resp) ==
    IF Truthy(given)
    THEN [draft_id |-> given, fetched |-> FALSE, printed |-> <<>>]
    ELSE LET found == get_auto_draft_id(variant, resp)
             searching == <<"Searching for latest draft in league " \o league_id \o "...">>
                          \o fetch_data_prints(resp)
         IN  IF ~Truthy(found)
             THEN \* the package returns None; the script leaves what it found
                  \* (None or an empty id) in draft_id
                  [draft_id |-> IF variant = "package" THEN None ELSE found,
                   fetched |-> TRUE,
                   printed |-> searching \o <<"Error: No drafts found for this league.">>]
             ELSE [draft_id |-> found, fetched |-> TRUE,
                   printed |-> searching \o <<"Target Draft: " \o found.v>>]

(***************************************************************************)
(* generate_output.                                                        *)
(***************************************************************************)
\* datetime.fromtimestamp(t).strftime("%Y-%m-%d %H:%M:%S"), in UTC
strftime(t) ==
    LET days == t \div 86400
        secs == t % 86400
        z == days + 719468
        era == z \div 146097
        doe == z - era * 146097
        yoe == (doe - doe \div 1460 + doe \div 36524 - doe \div 146096) \div 365
        doy == doe - (365 * yoe + yoe \div 4 - yoe \div 100)
        mp == (5 * doy + 2) \div 153
        d == doy - (153 * mp + 2) \div 5 + 1
        m == IF mp < 10 THEN mp + 3 ELSE mp - 9
        y == yoe + era * 400 + (IF m <= 2 THEN 1 ELSE 0)
    IN  NatStr(y) \o "-" \o Pad2(m) \o "-" \o Pad2(d) \o " "
        \o Pad2(secs \div 3600) \o ":" \o Pad2((secs % 3600) \div 60)
        \o ":" \o Pad2(secs % 60)

\* the label of the pick at index i (from 0)
round_num(i, teams) == PyFloorDiv(i, teams) + 1
\* a slip: the slot counted from 0
pick_num_from_zero(i, teams) == PyMod(i, teams)

pick_num(i, teams) == PyMod(i, teams) + 1
label(i, teams) == IntStr(round_num(i, teams)) \o "." \o Pad2(pick_num(i, teams))

username(pick, umap) == Get(umap, pick.picked_by, "Unknown")

player_name(pick) ==
    LET p_meta == Get(pick, "metadata", <<>>)
    IN  Get(p_meta, "first_name", "") \o " " \o Get(p_meta, "last_name", "")

pick_line(i, pick, umap, teams) ==
    "Pick " \o label(i, teams) \o " @" \o username(pick, umap)
    \o " (via " \o player_name(pick) \o ")"

\* the lines that close a round, after the pick at index i
round_lines(variant, i, teams) ==
    IF PyMod(i + 1, teams) = 0
    THEN IF variant = "script"
         THEN <<"**Round " \o IntStr(round_num(i, teams)) \o " is now full.**", "---">>
         ELSE <<"---">>
    ELSE <<>>

\* what the iteration at index i appends
iteration_lines(variant, picks, umap, teams, i) ==
    <<pick_line(i, picks[i + 1], umap, teams)>> \o round_lines(variant, i, teams)

\* what the iterations at indexes from..to append, in order, by halving
RECURSIVE range_lines(_, _, _, _, _, _)
range_lines(variant, picks, umap, teams, from, to) ==
    IF from > to THEN <<>>
    ELSE IF from = to THEN iteration_lines(variant, picks, umap, teams, from)
    ELSE LET mid == (from + to) \div 2
         IN  range_lines(variant, picks, umap, teams, from, mid)
             \o range_lines(variant, picks, umap, teams, mid + 1, to)

\* a slip: `if i > TOTAL_NUM_PICKS: break`
rendered_count_late_break(picks) ==
    IF Len(picks) > TOTAL_NUM_PICKS + 1 THEN TOTAL_NUM_PICKS + 1 ELSE Len(picks)

\* how many picks the loop renders before `if i >= TOTAL_NUM_PICKS: break`
rendered_count(picks) ==
    IF Len(picks) > TOTAL_NUM_PICKS THEN TOTAL_NUM_PICKS ELSE Len(picks)

\* what the loop over the picks appends
loop_lines(variant, picks, umap, teams) ==
    range_lines(variant, picks, umap, teams, 0, rendered_count(picks) - 1)

LowNotice(remaining) == "**Only " \o IntStr(remaining) \o " rookie picks remaining.**"
CompleteNotice == "**Rookie draft picking complete: All 4 rounds assigned.**"

\* a slip: `0 < remaining < LOW_REMAINING_THRESHOLD`
summary_lines_strict(picks) ==
    LET remaining == TOTAL_NUM_PICKS - Len(picks)
    IN  IF 0 < remaining /\ remaining < LOW_REMAINING_THRESHOLD
        THEN <<LowNotice(remaining)>>
        ELSE IF remaining <= 0 THEN <<CompleteNotice>> ELSE <<>>

\* the trailing summary
summary_lines(picks) ==
    LET remaining == TOTAL_NUM_PICKS - Len(picks)
    IN  IF 0 < remaining /\ remaining <= LOW_REMAINING_THRESHOLD
        THEN <<LowNotice(remaining)>>
        ELSE IF remaining <= 0 THEN <<CompleteNotice>> ELSE <<>>

header_lines(name, t) ==
    <<"**2026 Rookie Pick Tracker: " \o name \o "**",
      "*Last Updated: " \o strftime(t) \o "*", "---">>

\* the list output when generate_output returns
output_lines(variant, picks, umap, teams, name, t) ==
    header_lines(name, t) \o loop_lines(variant, picks, umap, teams)
    \o <<"\n">> \o summary_lines(picks)

\* the exception generate_output raises, "" when it returns
generate_output_raises(picks, teams) ==
    IF Len(picks) > 0 /\ teams = 0 THEN "ZeroDivisionError" ELSE ""

generate_output(variant, picks, umap, teams, name, t) ==
    Join(output_lines(variant, picks, umap, teams, name, t))

(***************************************************************************)
(* The processing step of run_kicker_scan: user map, filter, report.       *)
(***************************************************************************)
\* {u["user_id"]: u["display_name"] for u in users_data}; the package takes
\* users_data that is no list as no users, and the script gets here with
\* users_data that is no list only when iterating over it yields nothing
make_user_map(variant, users) ==
    IF users.t # "list" THEN <<>>
    ELSE LET last(id) == CHOOSE i \in 1..Len(users.v) :
                             /\ users.v[i].user_id = id
                             /\ \A j \in (i + 1)..Len(users.v) : users.v[j].user_id # id
         IN  [id \in {users.v[i].user_id : i \in 1..Len(users.v)} |->
                 users.v[last(id)].display_name]

target_positions(variant) == IF variant = "package" THEN {"K", "P"} ELSE {"K"}

\* players.get(p["player_id"], {}): the entry of the pick's player, a JSON
\* value, or the empty mapping when the directory has none
entry_of(directory, pick) == Get(directory.v, pick.player_id, EmptyDict)

\* whether the entry e of the player directory is an object, which has .get,
\* and not another JSON value (null, a string, a number, a list)
IsObject(e) == e.t = "dict"

\* players.get(p["player_id"], {}).get("position") in the target positions
qualifies(variant, directory, pick) ==
    Get(entry_of(directory, pick).v, "position", None)
        \in {Str(p) : p \in target_positions(variant)}

filter_picks(variant, directory, picks) ==
    IF picks.t # "list" THEN <<>>
    ELSE LET keep(p) == qualifies(variant, directory, p)
         IN  SelectSeq(picks.v, keep)

\* whether `for ... in x` can iterate over x, and whether it yields an item
Iterable(x) == x.t \in {"list", "dict", "str"}
Yields(x) == Iterable(x) /\ Truthy(x)

\* The exception the processing step raises before generate_output is
\* called, "" when none.  For every pick, players.get is looked up first,
\* then p["player_id"] is evaluated, then .get("position") is called on the
\* entry found.  The package iterates only over lists; the script iterates
\* over users_data and draft_picks whatever they are, and the items of
\* anything but a list are strings, which have no keys.
process_raises(variant, directory, users, picks) ==
    LET bad_entry == /\ picks.t = "list" /\ directory.t = "dict"
                     /\ \E i \in 1..Len(picks.v) :
                           ~IsObject(entry_of(directory, picks.v[i]))
    IN  IF variant = "package"
        THEN IF picks.t = "list" /\ Len(picks.v) > 0 /\ directory.t # "dict"
             THEN "AttributeError"
             ELSE IF bad_entry THEN "AttributeError" ELSE ""
        ELSE IF ~Iterable(users) \/ (users.t # "list" /\ Yields(users))
             THEN "TypeError"
             ELSE IF ~Iterable(picks) THEN "TypeError"
             ELSE IF ~Yields(picks) THEN ""
             ELSE IF directory.t # "dict" THEN "AttributeError"
             ELSE IF picks.t # "list" THEN "TypeError"
             ELSE IF bad_entry THEN "AttributeError" ELSE ""

process_picks(variant, directory, users, picks, teams, name, t) ==
    IF process_raises(variant, directory, users, picks) # ""
    THEN [raised |-> process_raises(variant, directory, users, picks),
          user_map |-> <<>>, k_picks |-> <<>>, output |-> <<>>, final_text |-> ""]
    ELSE LET umap == make_user_map(variant, users)
             kp == IF directory.t # "dict" THEN <<>>
                   ELSE filter_picks(variant, directory, picks)
         IN  IF generate_output_raises(kp, teams) # ""
             THEN [raised |-> generate_output_raises(kp, teams), user_map |-> umap,
                   k_picks |-> kp, output |-> <<>>, final_text |-> ""]
             ELSE [raised |-> "", user_map |-> umap, k_picks |-> kp,
                   output |-> output_lines(variant, kp, umap, teams, name, t),
                   final_text |-> generate_output(variant, kp, umap, teams, name, t)]

(***************************************************************************)
(* write_log_file.  mkdir ends well or in an OSError; the write of the log *)
(* has the outcomes of a write.  The result names the exception that       *)
(* escapes, the directory and the files afterwards, what was printed,      *)
(* whether the file was opened, the bytes it took and whether these are    *)
(* all of the report and its newline.                                      *)
(***************************************************************************)
log_path(name) == "logs/" \o name \o "_log.txt"

\* a slip: the file opened in "w" mode
append_text_truncating(old, text) == text

\* the file after it took text in append mode
append_text(old, text) == old \o text

file_content(files, path) == IF path \in DOMAIN files THEN files[path] ELSE ""

write_log_file(variant, name, text, dir, files, mk, wr) ==
    LET path == log_path(name)
        line == text \o "\n"
        old == file_content(files, path)
        taken == SubSeq(line, 1, bytes_taken(old, line, wr, PartialLogBytes))
        written == (path :> append_text(old, taken)) @@ files
        done == <<"\n Output appended to " \o path>>
        unopened(exception, printed) ==
            [raised |-> exception, dir |-> dir, files |-> files, printed |-> printed,
             wrote |-> FALSE, bytes |-> "", complete |-> FALSE]
    IN  IF variant = "package"
        THEN IF ~dir /\ mk = "fail" THEN unopened("OSError", <<>>)
             ELSE IF wr = "fail"
             THEN [unopened("", <<"Error writing to log file: " \o OpenErrorText(path)>>)
                      EXCEPT !.dir = TRUE]
             ELSE IF taken # line
             THEN [raised |-> "", dir |-> TRUE, files |-> written,
                   printed |-> <<"Error writing to log file: " \o GrowErrorText>>,
                   wrote |-> TRUE, bytes |-> taken, complete |-> FALSE]
             ELSE [raised |-> "", dir |-> TRUE, files |-> written, printed |-> done,
                   wrote |-> TRUE, bytes |-> taken, complete |-> TRUE]
        ELSE IF ~dir THEN unopened("FileNotFoundError", <<>>)
             ELSE IF wr = "fail" THEN unopened("OSError", <<>>)
             ELSE IF taken # line
             THEN [raised |-> "OSError", dir |-> dir, files |-> written, printed |-> <<>>,
                   wrote |-> TRUE, bytes |-> taken, complete |-> FALSE]
             ELSE [raised |-> "", dir |-> dir, files |-> written, printed |-> done,
                   wrote |-> TRUE, bytes |-> taken, complete |-> TRUE]

(***************************************************************************)
(* The state machine.                                                      *)
(***************************************************************************)
\* time between the previous event (start of the model, or the start of the
\* previous run) and the start of a run: just below, at and just above the
\* expiry of the cache
Delays == {CACHE_EXPIRY - 1, CACHE_EXPIRY, CACHE_EXPIRY + 1}

Outcomes == {"ok", "fail"}

LeagueName == "My League"
PriorLog == "earlier report\n"

NoLocals ==
    /\ league_data = None /\ final_name = "" /\ draft_id = None
    /\ players = None /\ users_data = None /\ draft_picks = None
    /\ user_map = <<>> /\ k_picks = <<>> /\ output = <<>> /\ final_text = ""

Remote(league, drafts, users, n) ==
    [league |-> Dict(league), drafts |-> List(drafts),
     players |-> Dict(PlayersDir), users |-> List(users),
     picks |-> List(PickList(n, "mixed"))]

Argv(given, teams) ==
    [league_id |-> "L1", draft_id |-> given, name |-> DEFAULT_NAME, teams |-> teams]

\* The draft id argument is absent, the empty string or an identifier.  When
\* an identifier is given the server's draft list is not looked at, so only
\* one list is tried.
Worlds ==
    { w \in [argv : {Argv(g, t) : g \in {None, Str(""), Str("D9")},
                                  t \in (-MaxTeamsArg)..MaxTeamsArg},
             remote : {Remote(l, d, u, n) :
                          l \in {[name |-> LeagueName], [season |-> "2026"]},
                          d \in {<<>>, DraftsList},
                          u \in {<<>>, UsersList},
                          n \in 0..MaxDraftPicks}] :
        Truthy(w.argv.draft_id) => w.remote.drafts = List(DraftsList) }

\* The cache file before the run: absent, an older directory, text that is
\* not JSON, JSON that is no object (a list of numbers, a list of one
\* key/value pair, a string), and bytes that are not text.
Caches ==
    { NoCache, CacheFile(0, Dict(OldPlayersDir)), CacheFile(0, Garbage),
      CacheFile(0, List(<<Num(1), Num(2), Num(3)>>)),
      CacheFile(0, List(<<List(<<Str("k1"), Str("b")>>)>>)),
      CacheFile(0, Str("abc")), CacheFile(0, Undecodable) }

\* logs/ absent; logs/ present and empty; logs/ with a log of earlier runs
LogStates ==
    { [dir |-> FALSE, files |-> <<>>], [dir |-> TRUE, files |-> <<>>],
      [dir |-> TRUE, files |-> (log_path(LeagueName) :> PriorLog)] }

InitRun ==
    /\ now = 0 /\ pc = "idle" /\ exc = "" /\ console = <<>> /\ fetches = <<>>
    /\ cache_writes = 0 /\ NoLocals

\* one run of the command, from any files and any server
Init ==
    /\ InitRun
    /\ impl \in Impls
    /\ \E w \in Worlds : argv = w.argv /\ remote = w.remote
    /\ cache \in Caches
    /\ \E l \in LogStates : logsDir = l.dir /\ logs = l.files /\ appended = [prior |-> l.files, writes |-> <<>>]
    /\ budget = 1

StartRun ==
    /\ pc \in {"idle", "returned", "raised"}
    /\ budget > 0
    /\ budget' = budget - 1
    /\ \E d \in Delays : now' = now + d
    /\ pc' = "league" /\ exc' = "" /\ console' = <<>> /\ fetches' = <<>>
    /\ cache_writes' = 0
    /\ league_data' = None /\ final_name' = "" /\ draft_id' = None
    /\ players' = None /\ users_data' = None /\ draft_picks' = None
    /\ user_map' = <<>> /\ k_picks' = <<>> /\ output' = <<>> /\ final_text' = ""
    /\ UNCHANGED <<impl, argv, remote, cache, logsDir, logs, appended>>

\* The line printed when the league is not found.  The script starts it with
\* the cross mark U+274C, written here as Python's ascii() writes it.
league_error(variant) ==
    IF variant = "package"
    THEN "Error: Could not find league with that ID."
    ELSE "\\u274c Error: Could not find league with that ID."

\* get_league_info as run_kicker_scan uses it
get_league_info(variant, resp) ==
    LET data == fetch_data(resp)
    IN  IF variant = "package" /\ data.t # "dict" THEN None ELSE data

GetLeagueInfo ==
    /\ pc = "league"
    /\ \E resp \in Responses(remote.league) :
         LET data == get_league_info(impl, resp)
         IN  /\ league_data' = data
             /\ fetches' = Append(fetches, Request("league", resp))
             /\ IF ~Truthy(data)
                THEN /\ console' = console \o fetch_data_prints(resp)
                                   \o <<league_error(impl)>>
                     /\ pc' = "returned"
                     /\ final_name' = final_name
                ELSE /\ console' = console \o fetch_data_prints(resp)
                     /\ pc' = "draft"
                     /\ final_name' = Get(data.v, "name",
                            IF impl = "package" THEN argv.name ELSE DEFAULT_NAME)
    /\ UNCHANGED <<impl, argv, remote, now, cache, logsDir, logs, budget, exc,
                   draft_id, players, users_data, draft_picks, user_map, k_picks,
                   output, final_text, cache_writes, appended>>

ResolveDraftId ==
    /\ pc = "draft"
    /\ \E resp \in Responses(remote.drafts) :
         LET r == resolve_draft_id(impl, argv.league_id, argv.draft_id, resp)
         IN  /\ draft_id' = r.draft_id
             /\ fetches' = IF r.fetched THEN Append(fetches, Request("drafts", resp)) ELSE fetches
             /\ console' = console \o r.printed
             /\ pc' = IF Truthy(r.draft_id) THEN "players" ELSE "returned"
    /\ UNCHANGED <<impl, argv, remote, now, cache, logsDir, logs, budget, exc,
                   league_data, final_name, players, users_data, draft_picks,
                   user_map, k_picks, output, final_text, cache_writes, appended>>

GetPlayers ==
    /\ pc = "players"
    /\ \E resp \in Responses(remote.players), cw \in WriteOutcomes :
         LET r == get_players(impl, cache, now, resp, cw)
         IN  /\ players' = r.players
             /\ cache' = r.cache
             /\ console' = console \o r.printed
             /\ fetches' = IF r.fetched THEN Append(fetches, Request("players", resp)) ELSE fetches
             /\ cache_writes' = IF r.wrote THEN cache_writes + 1 ELSE cache_writes
             /\ exc' = r.raised
             /\ pc' = IF r.raised # "" THEN "raised" ELSE "fetch"
    /\ UNCHANGED <<impl, argv, remote, now, logsDir, logs, budget, league_data,
                   final_name, draft_id, users_data, draft_picks, user_map,
                   k_picks, output, final_text, appended>>

\* a slip: `if not users_data and not draft_picks`
fetch_failed_both(users, picks) == ~Truthy(users) /\ ~Truthy(picks)

\* `if not users_data or not draft_picks`
fetch_failed(users, picks) == ~Truthy(users) \/ ~Truthy(picks)

\* fetch_draft_data and the check of its results
FetchDraftData ==
    /\ pc = "fetch"
    /\ \E r1 \in Responses(remote.users), r2 \in Responses(remote.picks) :
         /\ users_data' = fetch_data(r1)
         /\ draft_picks' = fetch_data(r2)
         /\ fetches' = fetches \o <<Request("users", r1), Request("picks", r2)>>
         /\ IF fetch_failed(fetch_data(r1), fetch_data(r2))
            THEN /\ console' = console \o fetch_data_prints(r1) \o fetch_data_prints(r2)
                      \o <<"Error: Failed to retrieve league users or draft picks.">>
                 /\ pc' = "returned"
            ELSE /\ console' = console \o fetch_data_prints(r1) \o fetch_data_prints(r2)
                 /\ pc' = "process"
    /\ UNCHANGED <<impl, argv, remote, now, cache, logsDir, logs, budget, exc,
                   league_data, final_name, draft_id, players, user_map, k_picks,
                   output, final_text, cache_writes, appended>>

ProcessPicks ==
    /\ pc = "process"
    /\ LET r == process_picks(impl, players, users_data, draft_picks, argv.teams,
                              final_name, now)
       IN  /\ user_map' = r.user_map
           /\ k_picks' = r.k_picks
           /\ output' = r.output
           /\ final_text' = r.final_text
           /\ exc' = r.raised
           /\ pc' = IF r.raised # "" THEN "raised" ELSE "emit"
    /\ UNCHANGED <<impl, argv, remote, now, cache, logsDir, logs, budget, console,
                   fetches, league_data, final_name, draft_id, players, users_data,
                   draft_picks, cache_writes, appended>>

\* click.echo(final_text), then write_log_file
EmitReport ==
    /\ pc = "emit"
    /\ \E mk \in Outcomes, wr \in WriteOutcomes :
         LET r == write_log_file(impl, final_name, final_text, logsDir, logs, mk, wr)
         IN  /\ console' = console \o <<final_text>> \o r.printed
             /\ logsDir' = r.dir
             /\ logs' = r.files
             /\ appended' = IF r.wrote
                            THEN [appended EXCEPT !.writes =
                                     Append(@, [path |-> log_path(final_name),
                                                text |-> final_text,
                                                bytes |-> r.bytes,
                                                complete |-> r.complete])]
                            ELSE appended
             /\ exc' = r.raised
             /\ pc' = IF r.raised # "" THEN "raised" ELSE "returned"
    /\ UNCHANGED <<impl, argv, remote, now, cache, budget, fetches, league_data,
                   final_name, draft_id, players, users_data, draft_picks, user_map,
                   k_picks, output, final_text, cache_writes>>

Next ==
    \/ StartRun
    \/ GetLeagueInfo
    \/ ResolveDraftId
    \/ GetPlayers
    \/ FetchDraftData
    \/ ProcessPicks
    \/ EmitReport

Spec == Init /\ [][Next]_vars

(***************************************************************************)
(* The formatter on its own: run_kicker_scan has fetched everything and is *)
(* about to build the report, for every length of the pick list up to      *)
(* MaxPicks and every --teams value from -1 to MaxTeams.                   *)
(***************************************************************************)
FormatInit ==
    /\ impl \in Impls
    /\ \E t \in (-1)..MaxTeams : argv = Argv(Str("D9"), t)
    /\ \E n \in 1..MaxPicks, pattern \in Patterns :
         /\ remote = [Remote([name |-> LeagueName], DraftsList, UsersList, 0)
                         EXCEPT !.picks = List(PickList(n, pattern))]
         /\ draft_picks = List(PickList(n, pattern))
    /\ now = CACHE_EXPIRY
    /\ cache = CacheFile(now, Dict(PlayersDir)) /\ cache_writes = 1
    /\ logsDir = FALSE /\ logs = <<>> /\ appended = [prior |-> <<>>, writes |-> <<>>]
    /\ budget = 0 /\ pc = "process" /\ exc = ""
    /\ console = <<"Fetching fresh player data from Sleeper (this may take a moment)...">>
    /\ fetches = <<Request("league", Ok200), Request("players", Ok200),
                   Request("users", Ok200), Request("picks", Ok200)>>
    /\ league_data = Dict([name |-> LeagueName]) /\ final_name = LeagueName
    /\ draft_id = Str("D9") /\ players = Dict(PlayersDir)
    /\ users_data = List(UsersList)
    /\ user_map = <<>> /\ k_picks = <<>> /\ output = <<>> /\ final_text = ""

FormatSpec == FormatInit /\ [][ProcessPicks]_vars

(***************************************************************************)
(* The command run up to MaxRuns times in a row against one server, with   *)
(* the files each run leaves behind.                                       *)
(***************************************************************************)
RepeatInit ==
    /\ InitRun
    /\ impl \in Impls
    /\ argv = Argv(None, DEFAULT_TEAMS)
    /\ remote = Remote([name |-> LeagueName], DraftsList, UsersList, MaxDraftPicks)
    /\ cache = NoCache
    /\ \E l \in LogStates :
         logsDir = l.dir /\ logs = l.files /\ appended = [prior |-> l.files, writes |-> <<>>]
    /\ budget = MaxRuns

RepeatSpec == RepeatInit /\ [][Next]_vars

(***************************************************************************)
(* Properties.                                                             *)
(***************************************************************************)
HasPrefix(s, pre) == Len(s) >= Len(pre) /\ SubSeq(s, 1, Len(pre)) = pre
HasSuffix(s, suf) ==
    Len(s) >= Len(suf) /\ SubSeq(s, Len(s) - Len(suf) + 1, Len(s)) = suf

IsPickLine(line) == HasPrefix(line, "Pick ")
PickLinesOf(lines) == SelectSeq(lines, IsPickLine)

\* a number below 100 in two digits
TwoDigits(k) == Digit(k \div 10) \o Digit(k % 10)

\* '{round}.{slot}' for the pick at index i with teams >= 1 picks per round
ExpectedLabel(i, teams) ==
    NatStr((i \div teams) + 1) \o "." \o TwoDigits((i % teams) + 1)

\* the report has been built
Reported == pc = "emit"

\* C1: whenever a report is built with teams >= 1, its i-th pick line (from
\* 0) starts with "Pick {round}.{slot} @" where round = i div teams + 1,
\* unpadded, and slot = i mod teams + 1 in two digits; with teams = 12 the
\* lines at indexes 11 and 12 are labelled 1.12 and 2.01.
C1_Labels ==
    (Reported /\ argv.teams >= 1) =>
        LET lines == PickLinesOf(output)
        IN  /\ \A i \in 0..(Len(lines) - 1) :
                  HasPrefix(lines[i + 1], "Pick " \o ExpectedLabel(i, argv.teams) \o " @")
            /\ (argv.teams = 12 /\ Len(lines) > 12) =>
                  /\ HasPrefix(lines[12], "Pick 1.12 @")
                  /\ HasPrefix(lines[13], "Pick 2.01 @")

C1_Witness ==
    /\ Reported /\ argv.teams = 12 /\ Len(k_picks) = 25
    /\ HasPrefix(PickLinesOf(output)[12], "Pick 1.12 @")
    /\ HasPrefix(PickLinesOf(output)[13], "Pick 2.01 @")
    /\ HasPrefix(PickLinesOf(output)[25], "Pick 3.01 @")

\* the picks of the remote list, in its order, whose player the directory
\* lists at a target position
IsQualifying(pick) ==
    \E id \in DOMAIN players.v :
        /\ id = pick.player_id
        /\ players.v[id].t = "dict"
        /\ "position" \in DOMAIN players.v[id].v
        /\ \/ players.v[id].v.position = Str("K")
           \/ impl = "package" /\ players.v[id].v.position = Str("P")

QualifyingNos == {j \in 1..Len(draft_picks.v) : IsQualifying(draft_picks.v[j])}

\* the j of the m-th smallest element of QualifyingNos
NthQualifying(m) ==
    CHOOSE j \in QualifyingNos : Cardinality({x \in QualifyingNos : x <= j}) = m

Min(a, b) == IF a < b THEN a ELSE b

\* how the pick renders after its label
ExpectedTail(pick) ==
    " @" \o (IF pick.picked_by \in {"u1", "u2"}
             THEN (IF pick.picked_by = "u1" THEN "alice" ELSE "bob")
             ELSE "Unknown")
    \o " (via "
    \o (IF "metadata" \in DOMAIN pick /\ "first_name" \in DOMAIN pick.metadata
        THEN pick.metadata.first_name ELSE "")
    \o " "
    \o (IF "metadata" \in DOMAIN pick /\ "last_name" \in DOMAIN pick.metadata
        THEN pick.metadata.last_name ELSE "")
    \o ")"

\* C2: with n qualifying picks the report has exactly min(n, 48) pick lines,
\* the m-th of them rendering the m-th qualifying pick of the remote list;
\* a list longer than 48 raises nothing (only teams = 0 makes the step raise).
C2_Cap ==
    /\ Reported =>
          LET lines == PickLinesOf(output)
              n == Cardinality(QualifyingNos)
          IN  /\ Len(lines) = Min(n, 48)
              /\ \A m \in 1..Len(lines) :
                    HasSuffix(lines[m], ExpectedTail(draft_picks.v[NthQualifying(m)]))
    /\ (pc # "process" /\ argv.teams # 0) => Reported

C2_Witness ==
    /\ Reported /\ Cardinality(QualifyingNos) = 50
    /\ Len(PickLinesOf(output)) = 48
    /\ HasSuffix(PickLinesOf(output)[48], " @alice (via  )")
    /\ HasSuffix(PickLinesOf(output)[47], " (via F47 L47)")

LowNoticeLines == {i \in 1..Len(output) : HasPrefix(output[i], "**Only ")}
CompleteNoticeLines ==
    {i \in 1..Len(output) :
        output[i] = "**Rookie draft picking complete: All 4 rounds assigned.**"}

\* C3: with remaining = 48 - (number of qualifying picks), the report ends
\* with the low-remaining notice naming remaining iff 0 < remaining <= 5,
\* with the all-rounds-complete notice iff remaining <= 0, and with neither
\* iff remaining > 5; never with both.
C3_Summary ==
    Reported =>
        LET remaining == 48 - Cardinality(QualifyingNos)
            last == Len(output)
            low == LowNoticeLines # {}
            complete == CompleteNoticeLines # {}
        IN  /\ low <=> (0 < remaining /\ remaining <= 5)
            /\ complete <=> remaining <= 0
            /\ (~low /\ ~complete) <=> remaining > 5
            /\ ~(low /\ complete)
            /\ low => /\ LowNoticeLines = {last}
                      /\ output[last] =
                           "**Only " \o NatStr(remaining) \o " rookie picks remaining.**"
            /\ complete => CompleteNoticeLines = {last}
            /\ (~low /\ ~complete) => output[last] = "\n"
            /\ HasSuffix(final_text, IF low \/ complete THEN "\n\n\n" \o output[last]
                                                        ELSE "\n\n")

C3_Witness ==
    /\ Reported /\ Cardinality(QualifyingNos) = 44
    /\ output[Len(output)] = "**Only 4 rookie picks remaining.**"
    /\ HasSuffix(final_text, "\n\n\n**Only 4 rookie picks remaining.**")

\* the requests of the run to url
RequestsTo(url) == {i \in 1..Len(fetches) : fetches[i].url = url}
Succeeded(url) ==
    \E i \in RequestsTo(url) :
        fetches[i].kind = "response" /\ fetches[i].status_code = 200
Failed(url) ==
    \E i \in RequestsTo(url) :
        ~(fetches[i].kind = "response" /\ fetches[i].status_code = 200)

\* C4: get_players uses the cache exactly when it is fresh.  A step of
\* get_players from a cache file that holds a directory and is younger than
\* 86400 s returns the file's contents, requests nothing and leaves the file
\* alone; from a file older than 86400 s, or no file, it requests the remote
\* directory and returns what was fetched (or the empty mapping), not the
\* file's contents (when the fetched directory cannot be written to the
\* file in full, the step ends in that error, the old contents still unused).
C4_CacheFreshness ==
    [][ (pc = "players" /\ pc' # "players") =>
          LET age == now - cache.mtime
              last == Len(fetches')
          IN  /\ (cache.exists /\ cache.content.t = "dict" /\ age < 86400) =>
                    /\ pc' = "fetch"
                    /\ players' = cache.content
                    /\ fetches' = fetches
                    /\ cache' = cache /\ cache_writes' = cache_writes
              /\ (~cache.exists \/ age > 86400) =>
                    /\ last = Len(fetches) + 1 /\ fetches'[last].url = "players"
                    /\ players' # Dict(OldPlayersDir)
                    /\ IF pc' = "fetch"
                       THEN players' = IF fetches'[last].kind = "response"
                                          /\ fetches'[last].status_code = 200
                                       THEN remote.players ELSE EmptyDict
                       ELSE \* the fetched directory could not be written
                            /\ pc' = "raised" /\ exc' = "OSError"
                            /\ players' = None
                            /\ cache'.content # remote.players
      ]_vars

C4_Witness ==
    /\ pc = "fetch" /\ now = 86399 /\ cache = CacheFile(0, Dict(OldPlayersDir))
    /\ players = Dict(OldPlayersDir) /\ RequestsTo("players") = {} /\ cache_writes = 0

\* C5: in the packaged module, a step of get_players from a fresh cache file
\* whose content is not a JSON object never raises: it requests the remote
\* directory and returns it, or the empty mapping when the request fails.
C5_MalformedCacheIsMiss ==
    [][ (impl = "package" /\ pc = "players" /\ pc' # "players"
         /\ cache.exists /\ now - cache.mtime < 86400 /\ cache.content.t # "dict") =>
          /\ pc' = "fetch"
          /\ Len(fetches') = Len(fetches) + 1 /\ fetches'[Len(fetches')].url = "players"
          /\ players' \in {remote.players, EmptyDict}
      ]_vars

\* the report reached the console
Echoed == final_text # "" /\ \E i \in 1..Len(console) : console[i] = final_text

\* the write of the log ended in an error (raised, or printed)
LogWriteFailed ==
    \/ exc # ""
    \/ \E i \in 1..Len(console) : HasPrefix(console[i], "Error writing to log file")

\* C6: in the packaged module, when the request for the player directory
\* fails, get_players returns the empty mapping and writes no cache file, and
\* a run whose league, draft, users and picks requests all succeed ends with
\* a report of no pick lines (title, timestamp, separator, no notice) on the
\* console and appended to the log.
C6_PlayersFailureNonFatal ==
    (impl = "package" /\ Failed("players")) =>
        /\ players = EmptyDict /\ cache_writes = 0
        /\ (pc \in {"returned", "raised"} /\ Succeeded("league") /\ Truthy(draft_id)
            /\ Succeeded("users") /\ Succeeded("picks")) =>
              /\ Echoed
              /\ Len(output) = 4 /\ output[3] = "---" /\ output[4] = "\n"
              /\ PickLinesOf(output) = <<>>
              /\ ~LogWriteFailed =>
                    /\ appended.writes = <<[path |-> log_path(final_name),
                                            text |-> final_text,
                                            bytes |-> final_text \o "\n",
                                            complete |-> TRUE]>>
                    /\ HasSuffix(logs[log_path(final_name)], final_text \o "\n")

\* a line that tells the user of an error
IsErrorLine(line) == HasPrefix(line, "Error: ") \/ HasPrefix(line, "\\u274c Error: ")

LeagueFailed == Failed("league")
DraftNotFound == Succeeded("league") /\ pc # "draft" /\ ~Truthy(draft_id)
UsersOrPicksFailed == Failed("users") \/ Failed("picks")

\* C7: once the league lookup has failed, or no draft was found, or the users
\* or the picks request has failed, the run has returned (no exception) with
\* an error message printed last, no report text on the console, the log
\* files as they were before the run, and no URL requested twice.
C7_FailuresAbort ==
    (LeagueFailed \/ DraftNotFound \/ UsersOrPicksFailed) =>
        /\ pc = "returned" /\ exc = ""
        /\ console # <<>> /\ IsErrorLine(console[Len(console)])
        /\ final_text = "" /\ output = <<>>
        /\ \A i \in 1..Len(console) : ~HasPrefix(console[i], "**2026 Rookie Pick Tracker")
        /\ logs = appended.prior /\ appended.writes = <<>>
        /\ \A i, j \in 1..Len(fetches) : fetches[i].url = fetches[j].url => i = j

C7_Witness ==
    /\ pc = "returned" /\ Succeeded("league") /\ Truthy(draft_id)
    /\ Succeeded("users") /\ Failed("picks") /\ Len(fetches) >= 4
    /\ console[Len(console)] = "Error: Failed to retrieve league users or draft picks."

\* C8 as stated: once the draft is resolved, a draft id provided on the
\* command line (any value, the empty string included) is the result and the
\* draft list was not requested; otherwise the draft list was requested
\* exactly once and the result is the draft id of its first element, or None
\* when the request failed or the list is empty.
C8_ProvidedIsReturned ==
    (Succeeded("league") /\ pc # "draft") =>
        IF argv.draft_id # None
        THEN draft_id = argv.draft_id /\ RequestsTo("drafts") = {}
        ELSE /\ Cardinality(RequestsTo("drafts")) = 1
             /\ IF Succeeded("drafts") /\ Len(remote.drafts.v) > 0
                THEN draft_id = remote.drafts.v[1].draft_id
                ELSE draft_id = None

\* C8, amended: once the draft is resolved, a non-empty draft id provided on
\* the command line is the result and the draft list was not requested;
\* otherwise (no draft id, or the empty string) the draft list was requested
\* exactly once and the result is the draft id of its first element, or None
\* when the request failed or the list is empty.
C8_ResolveDraft ==
    (Succeeded("league") /\ pc # "draft") =>
        IF argv.draft_id # None /\ argv.draft_id # Str("")
        THEN draft_id = argv.draft_id /\ RequestsTo("drafts") = {}
        ELSE /\ Cardinality(RequestsTo("drafts")) = 1
             /\ IF Succeeded("drafts") /\ Len(remote.drafts.v) > 0
                THEN draft_id = remote.drafts.v[1].draft_id
                ELSE draft_id = None

\* the empty draft id was provided and the first draft of the list was taken
C8_Witness ==
    /\ pc = "players" /\ argv.draft_id = Str("") /\ draft_id = Str("D2")
    /\ Cardinality(RequestsTo("drafts")) = 1

\* the content of the log file path after the writes, replayed from the
\* content before the first run: a complete write adds the report of its
\* run and one newline, a write cut short the bytes the file took
RECURSIVE Replay(_, _, _)
Replay(content, writes, path) ==
    IF writes = <<>> THEN content
    ELSE LET w == Head(writes)
         IN  Replay(IF w.path # path THEN content
                    ELSE IF w.complete THEN content \o w.text \o "\n"
                    ELSE content \o w.bytes,
                    Tail(writes), path)

PriorContent(path) ==
    IF path \in DOMAIN appended.prior THEN appended.prior[path] ELSE ""

\* C9: the log files are append-only.  After any number of runs every log
\* file holds what it held before the first run followed by, for each
\* write to it in order, the report text of that run and one newline (or,
\* for a write that was cut short, the first bytes of these that the file
\* took), so that after successful runs only the content is the prior
\* content followed by every report and its newline, and no byte that
\* preceded a write is changed by it; no other file appears; and after a
\* packaged run that reached the end the directory logs/ exists.
C9_AppendOnly ==
    /\ DOMAIN logs =
          DOMAIN appended.prior
          \cup {appended.writes[i].path : i \in 1..Len(appended.writes)}
    /\ \A path \in DOMAIN logs :
          logs[path] = Replay(PriorContent(path), appended.writes, path)
    /\ \A i \in 1..Len(appended.writes) :
          LET w == appended.writes[i]
          IN  /\ HasPrefix(w.text \o "\n", w.bytes)
              /\ w.complete <=> w.bytes = w.text \o "\n"
    /\ appended.writes # <<>> => logsDir
    /\ (impl = "package" /\ pc = "returned" /\ final_text # "") => logsDir

\* two runs in a row each appended its report to the earlier log
C9_Witness ==
    /\ Len(appended.writes) = 2
    /\ appended.writes[1].complete /\ appended.writes[2].complete
    /\ appended.prior = (log_path(LeagueName) :> PriorLog)
    /\ appended.writes[1].text # appended.writes[2].text
    /\ logs[log_path(LeagueName)] =
          PriorLog \o appended.writes[1].text \o "\n" \o appended.writes[2].text \o "\n"

\* C10: a run of the packaged run_kicker_scan never ends in an uncaught
\* exception.
C10_NeverRaises == impl = "package" => pc # "raised"

====
